---- MODULE Spec2Model ----
(***************************************************************************)
(* AWS quiz application: the Flask handlers of aws-quiz/app.py over the    *)
(* SQLite store of aws-quiz/models.py.                                     *)
(*                                                                         *)
(* The Flask `session` object is the signed cookie the client holds: a     *)
(* request carries the cookie as the client had it when the request was    *)
(* sent, the handler works on that copy, and the response carries the      *)
(* modified copy back.  The server keeps no session state of its own.      *)
(*                                                                         *)
(* ease_factor is held in tenths (2.5 is 25).  The REAL arithmetic of      *)
(* record_answer (+0.1, -0.2, int(interval * ease)) gives the same         *)
(* interval_days as this decimal arithmetic for every sequence of fewer    *)
(* than 15 answers to one question, which covers every state reached here. *)
(***************************************************************************)
EXTENDS Integers, Sequences, FiniteSets, TLC

VARIABLES
    history,    \* table answer_history: committed rows, in rowid order
    stats,      \* table question_stats: committed rows, keyed by question_id
    clock,      \* wall clock (UTC), in ticks of half a day
    utc_offset, \* the server's local time minus UTC, in ticks
    lock,       \* connection holding SQLite's write lock, or NoThread
    thr,        \* per server thread: position in submit_answer, its locals
    cookie,     \* per client: the Flask session cookie it holds
    resp,       \* the last response the server produced
    recorded    \* history variable: per client, the answers committed for
                \* the session it started last

vars == <<history, stats, clock, utc_offset, lock, thr, cookie, resp, recorded>>

----------------------------------------------------------------------------
(* Bounds *)

MaxClock == 1
MaxAnswers == 2
MaxSubmits == 3
MaxSchedAnswers == 8

----------------------------------------------------------------------------
(* Table questions: immutable rows *)

QuestionTable ==
    <<[question_number |-> 101, correct_answer |-> <<"A">>,      tags |-> <<"S3">>],
      [question_number |-> 102, correct_answer |-> <<"A", "B">>, tags |-> <<"EC2", "S3">>]>>

QuestionIds == DOMAIN QuestionTable

get_question(question_id) == QuestionTable[question_id]

----------------------------------------------------------------------------
(* Scheduler: the SM-2 arithmetic of record_answer *)

EaseDefault == 25
EaseMax == 30
EaseMin == 13
EaseStepUp == 1
EaseStepDown == 2
EaseScale == 10
TicksPerDay == 2

Min(a, b) == IF a < b THEN a ELSE b
Max(a, b) == IF a > b THEN a ELSE b

\* mutant: the first answer already moves the ease factor
FirstStatsAdjusted(is_correct, now) ==
    LET interval_days == IF is_correct THEN 1 ELSE 0
    IN  [times_correct |-> IF is_correct THEN 1 ELSE 0,
         times_wrong   |-> IF is_correct THEN 0 ELSE 1,
         last_answered |-> now,
         next_review   |-> now + interval_days * TicksPerDay,
         ease_factor   |-> IF is_correct THEN EaseDefault + EaseStepUp
                           ELSE EaseDefault - EaseStepDown,
         interval_days |-> interval_days]

\* first answer: the row inserted when the question has no stats yet
FirstStats(is_correct, now) ==
    LET interval_days == IF is_correct THEN 1 ELSE 0
    IN  [times_correct |-> IF is_correct THEN 1 ELSE 0,
         times_wrong   |-> IF is_correct THEN 0 ELSE 1,
         last_answered |-> now,
         next_review   |-> now + interval_days * TicksPerDay,
         ease_factor   |-> EaseDefault,
         interval_days |-> interval_days]

\* mutant: the interval grows by the ease factor after its own increment
GrowIntervalAfterEase(interval_days, ease_factor) ==
    IF interval_days = 0 THEN 1
    ELSE IF interval_days = 1 THEN 3
    ELSE (interval_days * Min(ease_factor + EaseStepUp, EaseMax)) \div EaseScale

\* mutant: the second interval is two days
GrowIntervalDoubling(interval_days, ease_factor) ==
    IF interval_days = 0 THEN 1
    ELSE IF interval_days = 1 THEN 2
    ELSE (interval_days * ease_factor) \div EaseScale

\* int(interval_days * ease_factor), ease_factor in tenths
GrowInterval(interval_days, ease_factor) ==
    IF interval_days = 0 THEN 1
    ELSE IF interval_days = 1 THEN 3
    ELSE (interval_days * ease_factor) \div EaseScale

\* mutant: no upper clamp
RaiseEaseUnclamped(ease_factor) == ease_factor + EaseStepUp

RaiseEase(ease_factor) == Min(ease_factor + EaseStepUp, EaseMax)

\* mutant: no lower clamp
LowerEaseUnclamped(ease_factor) == ease_factor - EaseStepDown

LowerEase(ease_factor) == Max(ease_factor - EaseStepDown, EaseMin)

\* later answers: the values computed from the row read by the SELECT
NextInterval(old, is_correct) ==
    IF is_correct THEN GrowInterval(old.interval_days, old.ease_factor) ELSE 0

NextEase(old, is_correct) ==
    IF is_correct THEN RaiseEase(old.ease_factor) ELSE LowerEase(old.ease_factor)

\* the row the UPDATE leaves, from the row the SELECT read
UpdatedStats(old, is_correct, now) ==
    [times_correct |-> old.times_correct + (IF is_correct THEN 1 ELSE 0),
     times_wrong   |-> old.times_wrong + (IF is_correct THEN 0 ELSE 1),
     last_answered |-> now,
     next_review   |-> now + NextInterval(old, is_correct) * TicksPerDay,
     ease_factor   |-> NextEase(old, is_correct),
     interval_days |-> NextInterval(old, is_correct)]

AnswerEvent(question_id, answer_given, is_correct, now) ==
    [question_id |-> question_id, answer_given |-> answer_given,
     is_correct |-> is_correct, answered_at |-> now]

----------------------------------------------------------------------------
(* Clients, server threads, clocks *)

Clients == {"c1", "c2"}
Threads == {1, 2}
NoThread == 0
UtcOffsets == {0}

\* datetime.now(): naive local time
LocalNow == clock + utc_offset

\* SQLite datetime('now'): UTC
SqlNow == clock

----------------------------------------------------------------------------
(* The session cookie *)

NoTags == <<>>

NoSession ==
    [questions |-> <<>>, current_index |-> 0, score |-> 0, answers |-> <<>>,
     tags |-> NoTags]

\* 'questions' in session
HasSession(c) == c \in DOMAIN cookie

Put(f, k, v) == [x \in DOMAIN f \cup {k} |-> IF x = k THEN v ELSE f[x]]

----------------------------------------------------------------------------
(* Request inputs *)

Alpha == {"A", "B", "C", "D", "E"}

\* isinstance(answer, str) and answer.isalpha() and len(answer) <= 5
MaxAnswerLen == 5
ValidAnswer(answer) ==
    /\ Len(answer) >= 1
    /\ \A i \in DOMAIN answer : answer[i] \in Alpha
    /\ Len(answer) <= MaxAnswerLen

AnswerInputs == {<<"A">>, <<"A", "B">>, <<"B", "A">>, <<"7">>}

----------------------------------------------------------------------------
(* Responses *)

NoResp ==
    [op |-> "none", status |-> 0, error |-> "",
     index |-> 0, total |-> 0, question_number |-> 0, score |-> 0,
     is_correct |-> FALSE, correct_answer |-> <<>>, has_next |-> FALSE,
     complete |-> FALSE, answers |-> <<>>,
     counts |-> [all |-> 0, new |-> 0, wrong |-> 0, due |-> 0],
     tags |-> <<>>]

OkResp(op) == [NoResp EXCEPT !.op = op, !.status = 200]

ErrorResp(op, status, error) ==
    [NoResp EXCEPT !.op = op, !.status = status, !.error = error]

----------------------------------------------------------------------------
(* Selection: get_questions_for_session *)

VALID_FILTERS == {"all", "new", "wrong", "due"}

\* SQLite's LIKE compares ASCII letters without regard to case
CaseFold ==
    [x \in {"S3", "s3", "EC2", "ec2", ""} |->
        CASE x = "S3" -> "s3"
          [] x = "EC2" -> "ec2"
          [] OTHER -> x]

\* q.tags LIKE '%"tag"%' against the JSON array of the row's tags
TagLike(question_id, tag) ==
    \E i \in DOMAIN QuestionTable[question_id].tags :
        CaseFold[QuestionTable[question_id].tags[i]] = CaseFold[tag]

TagFilter(question_id, tags) ==
    tags = NoTags \/ \E i \in DOMAIN tags : TagLike(question_id, tags[i])

\* mutant: 'new' does not look at the stats
FilterMatchesNewAny(question_id, filter_mode) ==
    CASE filter_mode = "wrong" ->
            /\ question_id \in DOMAIN stats
            /\ stats[question_id].times_wrong > stats[question_id].times_correct
      [] filter_mode = "due" ->
            /\ question_id \in DOMAIN stats
            /\ stats[question_id].next_review <= SqlNow
      [] OTHER -> TRUE

FilterMatches(question_id, filter_mode) ==
    CASE filter_mode = "new" -> question_id \notin DOMAIN stats
      [] filter_mode = "wrong" ->
            /\ question_id \in DOMAIN stats
            /\ stats[question_id].times_wrong > stats[question_id].times_correct
      [] filter_mode = "due" ->
            /\ question_id \in DOMAIN stats
            /\ stats[question_id].next_review <= SqlNow
      [] OTHER -> TRUE

Matching(filter_mode, tags) ==
    {q \in QuestionIds : FilterMatches(q, filter_mode) /\ TagFilter(q, tags)}

\* ORDER BY of each query; RANDOM() allows any order
InOrder(filter_mode, a, b) ==
    CASE filter_mode = "wrong" ->
            stats[a].times_wrong - stats[a].times_correct
                >= stats[b].times_wrong - stats[b].times_correct
      [] filter_mode = "due" -> stats[a].next_review <= stats[b].next_review
      [] OTHER -> TRUE

Orderings(S, filter_mode) ==
    {p \in [1..Cardinality(S) -> S] :
        \A i, j \in DOMAIN p : i < j => p[i] # p[j] /\ InOrder(filter_mode, p[i], p[j])}

\* the row lists the query may return: ORDER BY, then LIMIT count
get_questions_for_session(count, filter_mode, tags) ==
    LET M == Matching(filter_mode, tags)
    IN  {SubSeq(p, 1, Min(count, Cardinality(M))) : p \in Orderings(M, filter_mode)}

\* [t for t in tags if t] or None
DropEmpty(list) ==
    LET F[i \in 0..Len(list)] ==
            IF i = 0 THEN <<>>
            ELSE IF list[i] = "" THEN F[i - 1] ELSE Append(F[i - 1], list[i])
    IN  F[Len(list)]

\* the four COUNT(*) queries, with the WHERE clauses of the selection
get_filter_counts(tags) ==
    [all   |-> Cardinality(Matching("all", tags)),
     new   |-> Cardinality(Matching("new", tags)),
     wrong |-> Cardinality(Matching("wrong", tags)),
     due   |-> Cardinality(Matching("due", tags))]

\* GET /api/filter-counts: empty tags are dropped, no tags left means none
GetCounts(tags) ==
    /\ resp' = [OkResp("counts") EXCEPT !.counts = get_filter_counts(DropEmpty(tags))]
    /\ UNCHANGED <<history, stats, clock, utc_offset, lock, thr, cookie, recorded>>

----------------------------------------------------------------------------
(* start_session *)

MinCount == 1
MaxCount == 100

\* the request's tags: absent, a list of strings, or something else
NoTagsGiven == [given |-> FALSE, wellformed |-> TRUE, list |-> <<>>]
TagList(list) == [given |-> TRUE, wellformed |-> TRUE, list |-> list]
NotAList == [given |-> TRUE, wellformed |-> FALSE, list |-> <<>>]

StartInputs ==
    {[count |-> 2, filter |-> "all", tags |-> NoTagsGiven],
     [count |-> 1, filter |-> "new", tags |-> TagList(<<"">>)],
     [count |-> 1, filter |-> "wrong", tags |-> NoTagsGiven],
     [count |-> 2, filter |-> "due", tags |-> NoTagsGiven],
     [count |-> 0, filter |-> "all", tags |-> NoTagsGiven],
     [count |-> 1, filter |-> "hard", tags |-> NoTagsGiven],
     [count |-> 1, filter |-> "all", tags |-> NotAList]}

StartRequestError(count, filter_mode, raw) ==
    IF count < MinCount \/ count > MaxCount
    THEN "Count must be an integer between 1 and 100"
    ELSE IF filter_mode \notin VALID_FILTERS THEN "Invalid filter"
    ELSE IF raw.given /\ ~raw.wellformed THEN "Tags must be a list of strings"
    ELSE ""

NewSession(questions, tags) ==
    [questions |-> questions, current_index |-> 0, score |-> 0,
     answers |-> <<>>, tags |-> tags]

\* the totals of get_dashboard_stats
get_dashboard_stats ==
    [total_questions |-> Len(QuestionTable),
     attempted       |-> Cardinality(DOMAIN stats),
     total_answers   |-> Len(history),
     correct_answers |-> Len(SelectSeq(history, LAMBDA e : e.is_correct))]

\* history variable: the answers committed for a session, and the
\* dashboard totals when the session was started
NoTally == [total |-> 0, correct |-> 0, total_before |-> 0, correct_before |-> 0]

SessionTally ==
    [NoTally EXCEPT !.total_before = get_dashboard_stats.total_answers,
                    !.correct_before = get_dashboard_stats.correct_answers]

\* the client has no request in flight; it starts a session only then
Quiet(c) == \A t \in Threads : thr[t].client # c

\* mutant: the score and the result log of the previous session are kept
StartSessionKeepsLog(c, count, filter_mode, raw) ==
    /\ Quiet(c)
    /\ StartRequestError(count, filter_mode, raw) = ""
    /\ \E questions \in get_questions_for_session(count, filter_mode, DropEmpty(raw.list)) :
        /\ questions # <<>>
        /\ cookie' = Put(cookie, c,
                IF HasSession(c)
                THEN [NewSession(questions, DropEmpty(raw.list)) EXCEPT
                        !.score = cookie[c].score, !.answers = cookie[c].answers]
                ELSE NewSession(questions, DropEmpty(raw.list)))
        /\ resp' = [OkResp("start") EXCEPT !.total = Len(questions)]
    /\ recorded' = [recorded EXCEPT ![c] = SessionTally]
    /\ UNCHANGED <<history, stats, clock, utc_offset, lock, thr>>

StartSession(c, count, filter_mode, raw) ==
    /\ Quiet(c)
    /\ StartRequestError(count, filter_mode, raw) = ""
    /\ \E questions \in get_questions_for_session(count, filter_mode, DropEmpty(raw.list)) :
        /\ questions # <<>>
        /\ cookie' = Put(cookie, c, NewSession(questions, DropEmpty(raw.list)))
        /\ resp' = [OkResp("start") EXCEPT !.total = Len(questions)]
    /\ recorded' = [recorded EXCEPT ![c] = SessionTally]
    /\ UNCHANGED <<history, stats, clock, utc_offset, lock, thr>>

\* mutant: a failed start-session drops the session the client held
StartSessionRejectedDropsSession(c, count, filter_mode, raw) ==
    /\ \/ /\ StartRequestError(count, filter_mode, raw) # ""
          /\ resp' = ErrorResp("start", 400, StartRequestError(count, filter_mode, raw))
       \/ /\ StartRequestError(count, filter_mode, raw) = ""
          /\ <<>> \in get_questions_for_session(count, filter_mode, DropEmpty(raw.list))
          /\ resp' = ErrorResp("start", 400, "No questions available for this filter")
    /\ cookie' = [x \in DOMAIN cookie \ {c} |-> cookie[x]]
    /\ UNCHANGED <<history, stats, clock, utc_offset, lock, thr, recorded>>

StartSessionRejected(c, count, filter_mode, raw) ==
    /\ \/ /\ StartRequestError(count, filter_mode, raw) # ""
          /\ resp' = ErrorResp("start", 400, StartRequestError(count, filter_mode, raw))
       \/ /\ StartRequestError(count, filter_mode, raw) = ""
          /\ <<>> \in get_questions_for_session(count, filter_mode, DropEmpty(raw.list))
          /\ resp' = ErrorResp("start", 400, "No questions available for this filter")
    /\ UNCHANGED <<history, stats, clock, utc_offset, lock, thr, cookie, recorded>>

----------------------------------------------------------------------------
(* get_current_question, session_results *)

Complete(sess) == sess.current_index >= Len(sess.questions)

CurrentQuestionId(sess) == sess.questions[sess.current_index + 1]

\* mutant: the question is sent with its correct answer
QuestionRespWithAnswer(question, index, total) ==
    [OkResp("question") EXCEPT
        !.index = index,
        !.total = total,
        !.question_number = question.question_number,
        !.tags = question.tags,
        !.correct_answer = question.correct_answer]

\* the fields of the question row that are sent to the client
QuestionResp(question, index, total) ==
    [OkResp("question") EXCEPT
        !.index = index,
        !.total = total,
        !.question_number = question.question_number,
        !.tags = question.tags]

CurrentQuestionResp(c) ==
    IF ~HasSession(c) THEN ErrorResp("question", 400, "No active session")
    ELSE IF Complete(cookie[c])
    THEN [OkResp("question") EXCEPT !.complete = TRUE, !.score = cookie[c].score]
    ELSE QuestionResp(get_question(CurrentQuestionId(cookie[c])),
                      cookie[c].current_index + 1, Len(cookie[c].questions))

\* mutant: fetching the question moves the session on
GetCurrentQuestionAdvances(c) ==
    /\ resp' = CurrentQuestionResp(c)
    /\ cookie' = IF HasSession(c) /\ ~Complete(cookie[c])
                 THEN [cookie EXCEPT ![c].current_index = @ + 1]
                 ELSE cookie
    /\ UNCHANGED <<history, stats, clock, utc_offset, lock, thr, recorded>>

GetCurrentQuestion(c) ==
    /\ resp' = CurrentQuestionResp(c)
    /\ UNCHANGED <<history, stats, clock, utc_offset, lock, thr, cookie, recorded>>

SessionResultsResp(c) ==
    IF ~HasSession(c) THEN ErrorResp("results", 400, "No active session")
    ELSE [OkResp("results") EXCEPT
            !.total = Len(cookie[c].questions),
            !.score = cookie[c].score,
            !.answers = cookie[c].answers]

SessionResults(c) ==
    /\ resp' = SessionResultsResp(c)
    /\ UNCHANGED <<history, stats, clock, utc_offset, lock, thr, cookie, recorded>>

----------------------------------------------------------------------------
(* submit_answer, with the transaction of record_answer step by step *)

ZeroStats ==
    [times_correct |-> 0, times_wrong |-> 0, last_answered |-> 0,
     next_review |-> 0, ease_factor |-> 0, interval_days |-> 0]

\* a thread's locals: the request (client, cookie, answer), the question,
\* the verdict, record_answer's timestamp and the stats row it computed;
\* waited is a history variable: another connection took the write lock
\* while this one was about to
IdleThread ==
    [pc |-> "idle", client |-> "none", sess |-> NoSession, answer |-> <<>>,
     question_id |-> 0, is_correct |-> FALSE, now |-> 0, row |-> ZeroStats,
     waited |-> FALSE]

\* what submit_answer answers before it reads the store, "" when it goes on
SubmitRequestError(c, answer) ==
    IF ~HasSession(c) THEN "No active session"
    ELSE IF ~ValidAnswer(answer) THEN "Invalid answer"
    ELSE IF Complete(cookie[c]) THEN "Session complete"
    ELSE ""

SubmitRejected(c, answer) ==
    /\ SubmitRequestError(c, answer) # ""
    /\ resp' = ErrorResp("answer", 400, SubmitRequestError(c, answer))
    /\ UNCHANGED <<history, stats, clock, utc_offset, lock, thr, cookie, recorded>>

\* answer == correct_answer
IsCorrect(answer, correct_answer) == answer = correct_answer

InFlight == {t \in Threads : thr[t].pc \in {"insert", "select", "commit"}}

\* record_answer is entered: a connection is opened and the timestamp is
\* taken, before the first statement waits for the write lock
RecordAnswerCall(c, sess, answer, question_id, is_correct) ==
    [IdleThread EXCEPT
        !.pc = "insert", !.client = c, !.sess = sess, !.answer = answer,
        !.question_id = question_id, !.is_correct = is_correct, !.now = LocalNow]

\* the handler up to record_answer's first statement: the request is read
\* with the cookie it carries, the question is fetched and the answer is
\* judged; the request takes the first free thread
SubmitBegin(t, c, answer) ==
    /\ thr[t].pc = "idle"
    /\ \A u \in Threads : thr[u].pc = "idle" => t <= u
    /\ SubmitRequestError(c, answer) = ""
    /\ thr' = [thr EXCEPT ![t] =
                RecordAnswerCall(c, cookie[c], answer, CurrentQuestionId(cookie[c]),
                    IsCorrect(answer,
                        get_question(CurrentQuestionId(cookie[c])).correct_answer))]
    /\ UNCHANGED <<history, stats, clock, utc_offset, lock, cookie, resp, recorded>>

\* record_answer called for a question on behalf of no modelled session
\* (another client's submit_answer), judged as submit_answer judges
RecordAnswerBegin(t, question_id, answer) ==
    /\ thr[t].pc = "idle"
    /\ thr' = [thr EXCEPT ![t] =
                RecordAnswerCall("none", NoSession, answer, question_id,
                    IsCorrect(answer, get_question(question_id).correct_answer))]
    /\ UNCHANGED <<history, stats, clock, utc_offset, lock, cookie, resp, recorded>>

\* mutant: writers do not exclude each other
WriteLockAlwaysFree(t) == TRUE

\* SQLite lets one connection write at a time
WriteLockFree(t) == lock = NoThread

\* mutant: the connection commits each statement as it runs
RecordAnswerInsertAutocommit(t) ==
    /\ thr[t].pc = "insert"
    /\ lock = NoThread
    /\ lock' = t
    /\ history' = Append(history,
            AnswerEvent(thr[t].question_id, thr[t].answer,
                        thr[t].is_correct, thr[t].now))
    /\ thr' = [thr EXCEPT ![t].pc = "select"]
    /\ UNCHANGED <<stats, clock, utc_offset, cookie, resp, recorded>>

\* INSERT INTO answer_history: opens the transaction and takes the write
\* lock; the row stays invisible to other connections until the commit
RecordAnswerInsert(t) ==
    /\ thr[t].pc = "insert"
    /\ WriteLockFree(t)
    /\ lock' = t
    /\ thr' = [u \in Threads |->
                IF u = t THEN [thr[u] EXCEPT !.pc = "select"]
                ELSE IF thr[u].pc = "insert" THEN [thr[u] EXCEPT !.waited = TRUE]
                ELSE thr[u]]
    /\ UNCHANGED <<history, stats, clock, utc_offset, cookie, resp, recorded>>

\* the INSERT gives up waiting for the lock (sqlite3's busy timeout):
\* OperationalError, the request fails and the cookie is not rewritten
RecordAnswerBusy(t) ==
    /\ thr[t].pc = "insert"
    /\ lock \notin {NoThread, t}
    /\ thr' = [thr EXCEPT ![t] = IdleThread]
    /\ resp' = ErrorResp("answer", 500, "database is locked")
    /\ UNCHANGED <<history, stats, clock, utc_offset, lock, cookie, recorded>>

\* SELECT the stats row, then INSERT or UPDATE it, inside the transaction
RecordAnswerUpsert(t) ==
    /\ thr[t].pc = "select"
    /\ thr' = [thr EXCEPT ![t].pc = "commit",
                          ![t].row =
                            IF thr[t].question_id \in DOMAIN stats
                            THEN UpdatedStats(stats[thr[t].question_id],
                                              thr[t].is_correct, thr[t].now)
                            ELSE FirstStats(thr[t].is_correct, thr[t].now)]
    /\ UNCHANGED <<history, stats, clock, utc_offset, lock, cookie, resp, recorded>>

Tally(r, is_correct) ==
    [r EXCEPT !.total = @ + 1, !.correct = @ + (IF is_correct THEN 1 ELSE 0)]

\* conn.commit(): both rows become visible at once and the lock is released
RecordAnswerCommit(t) ==
    /\ thr[t].pc = "commit"
    /\ history' = Append(history,
            AnswerEvent(thr[t].question_id, thr[t].answer,
                        thr[t].is_correct, thr[t].now))
    /\ stats' = Put(stats, thr[t].question_id, thr[t].row)
    /\ lock' = NoThread
    /\ thr' = [thr EXCEPT ![t].pc = "done"]
    /\ recorded' = IF thr[t].client \in Clients
                   THEN [recorded EXCEPT ![thr[t].client] = Tally(@, thr[t].is_correct)]
                   ELSE recorded
    /\ UNCHANGED <<clock, utc_offset, cookie, resp>>

\* lines 142-155: score, result log, position
UpdateSession(sess, question, answer, is_correct) ==
    [sess EXCEPT
        !.score = IF is_correct THEN sess.score + 1 ELSE sess.score,
        !.answers = Append(sess.answers,
                        [question_number |-> question.question_number,
                         given |-> answer,
                         correct |-> question.correct_answer,
                         is_correct |-> is_correct]),
        !.current_index = sess.current_index + 1]

SubmitResp(sess, question, is_correct) ==
    [OkResp("answer") EXCEPT
        !.is_correct = is_correct,
        !.correct_answer = question.correct_answer,
        !.score = sess.score,
        !.has_next = sess.current_index < Len(sess.questions)]

\* the rest of submit_answer: the handler updates its copy of the session
\* and answers; the client stores the cookie the response carries
SubmitRespond(t) ==
    /\ thr[t].pc = "done"
    /\ thr[t].client \in Clients
    /\ LET sess == UpdateSession(thr[t].sess, get_question(thr[t].question_id),
                                 thr[t].answer, thr[t].is_correct)
       IN  /\ cookie' = Put(cookie, thr[t].client, sess)
           /\ resp' = SubmitResp(sess, get_question(thr[t].question_id),
                                 thr[t].is_correct)
    /\ thr' = [thr EXCEPT ![t] = IdleThread]
    /\ UNCHANGED <<history, stats, clock, utc_offset, lock, recorded>>

\* record_answer returns to a caller that is no modelled session
RecordAnswerReturn(t) ==
    /\ thr[t].pc = "done"
    /\ thr[t].client \notin Clients
    /\ thr' = [thr EXCEPT ![t] = IdleThread]
    /\ UNCHANGED <<history, stats, clock, utc_offset, lock, cookie, resp, recorded>>

Tick ==
    /\ clock < MaxClock
    /\ clock' = clock + 1
    /\ UNCHANGED <<history, stats, utc_offset, lock, thr, cookie, resp, recorded>>

----------------------------------------------------------------------------
(* The web application seen by one client: every handler, up to two         *)
(* requests in flight, at one instant of the clock                         *)

Init ==
    /\ history = <<>>
    /\ stats = <<>>
    /\ clock = 0
    /\ utc_offset \in UtcOffsets
    /\ lock = NoThread
    /\ thr = [t \in Threads |-> IdleThread]
    /\ cookie = <<>>
    /\ resp = NoResp
    /\ recorded = [c \in Clients |-> NoTally]

OneClient == {"c1"}

Submit(t, c, answer) ==
    /\ Len(history) + Cardinality(InFlight) < MaxAnswers
    /\ SubmitBegin(t, c, answer)

Next ==
    \/ \E c \in OneClient, r \in StartInputs : StartSession(c, r.count, r.filter, r.tags)
    \/ \E c \in OneClient, r \in StartInputs :
            StartSessionRejected(c, r.count, r.filter, r.tags)
    \/ \E c \in OneClient : GetCurrentQuestion(c)
    \/ \E c \in OneClient : SessionResults(c)
    \/ \E c \in OneClient, answer \in AnswerInputs : SubmitRejected(c, answer)
    \/ \E t \in Threads, c \in OneClient, answer \in AnswerInputs : Submit(t, c, answer)
    \/ \E t \in Threads : RecordAnswerInsert(t)
    \/ \E t \in Threads : RecordAnswerBusy(t)
    \/ \E t \in Threads : RecordAnswerUpsert(t)
    \/ \E t \in Threads : RecordAnswerCommit(t)
    \/ \E t \in Threads : SubmitRespond(t)

Spec == Init /\ [][Next]_vars

----------------------------------------------------------------------------
(* One two-question session through a longer run of submissions, up to two *)
(* of them in flight at a time                                             *)

RaceAnswerInputs == {<<"A">>, <<"7">>}

RaceSubmit(t, c, answer) ==
    /\ Len(history) + Cardinality(InFlight) < MaxSubmits
    /\ SubmitBegin(t, c, answer)

RaceNext ==
    \/ \E c \in OneClient : StartSession(c, 2, "all", NoTagsGiven)
    \/ \E c \in OneClient : GetCurrentQuestion(c)
    \/ \E c \in OneClient, answer \in RaceAnswerInputs : SubmitRejected(c, answer)
    \/ \E t \in Threads, c \in OneClient, answer \in RaceAnswerInputs :
            RaceSubmit(t, c, answer)
    \/ \E t \in Threads : RecordAnswerInsert(t)
    \/ \E t \in Threads : RecordAnswerBusy(t)
    \/ \E t \in Threads : RecordAnswerUpsert(t)
    \/ \E t \in Threads : RecordAnswerCommit(t)
    \/ \E t \in Threads : SubmitRespond(t)

RaceSpec == Init /\ [][RaceNext]_vars

----------------------------------------------------------------------------
(* The store under concurrent callers: up to two record_answer             *)
(* transactions at a time, while the clock runs                            *)

StoreAnswerInputs == {<<"A">>, <<"A", "B">>}

StoreAnswer(t, question_id, answer) ==
    /\ Len(history) + Cardinality(InFlight) < MaxAnswers
    /\ RecordAnswerBegin(t, question_id, answer)

StoreNext ==
    \/ \E t \in Threads, q \in QuestionIds, answer \in StoreAnswerInputs :
            StoreAnswer(t, q, answer)
    \/ \E t \in Threads : RecordAnswerInsert(t)
    \/ \E t \in Threads : RecordAnswerBusy(t)
    \/ \E t \in Threads : RecordAnswerUpsert(t)
    \/ \E t \in Threads : RecordAnswerCommit(t)
    \/ \E t \in Threads : RecordAnswerReturn(t)
    \/ Tick

StoreSpec == Init /\ [][StoreNext]_vars

----------------------------------------------------------------------------
(* The scheduler: record_answer called again and again for one question,   *)
(* one call at a time, while the clock runs                                *)

SchedThread == 1
SchedQuestion == 1

SchedAnswer(answer) ==
    /\ Len(history) < MaxSchedAnswers
    /\ RecordAnswerBegin(SchedThread, SchedQuestion, answer)

SchedNext ==
    \/ \E answer \in StoreAnswerInputs : SchedAnswer(answer)
    \/ RecordAnswerInsert(SchedThread)
    \/ RecordAnswerUpsert(SchedThread)
    \/ RecordAnswerCommit(SchedThread)
    \/ RecordAnswerReturn(SchedThread)
    \/ Tick

SchedSpec == Init /\ [][SchedNext]_vars

----------------------------------------------------------------------------
(* Selection: sessions started and filter counts read over the stores that  *)
(* answering leaves, one record_answer at a time, while the clock runs, on  *)
(* a server whose local time is UTC or ahead of it                         *)

SelectUtcOffsets == {0, 1}

SelectInit ==
    /\ history = <<>>
    /\ stats = <<>>
    /\ clock = 0
    /\ utc_offset \in SelectUtcOffsets
    /\ lock = NoThread
    /\ thr = [t \in Threads |-> IdleThread]
    /\ cookie = <<>>
    /\ resp = NoResp
    /\ recorded = [c \in Clients |-> NoTally]

SelectInputs ==
    {[count |-> 1, filter |-> "new", tags |-> NoTagsGiven],
     [count |-> 2, filter |-> "wrong", tags |-> NoTagsGiven],
     [count |-> 2, filter |-> "due", tags |-> NoTagsGiven],
     [count |-> 2, filter |-> "all", tags |-> TagList(<<"", "EC2">>)],
     [count |-> 2, filter |-> "new", tags |-> TagList(<<"ec2">>)],
     [count |-> 101, filter |-> "all", tags |-> NoTagsGiven]}

CountsInputs == {<<"s3", "">>}

\* the answer "A" is correct for question 1 and wrong for question 2
SelectAnswerInputs == {<<"A">>}

SelectAnswer(question_id, answer) ==
    /\ Len(history) < MaxAnswers
    /\ RecordAnswerBegin(SchedThread, question_id, answer)

SelectNext ==
    \/ \E q \in QuestionIds, answer \in SelectAnswerInputs : SelectAnswer(q, answer)
    \/ RecordAnswerInsert(SchedThread)
    \/ RecordAnswerUpsert(SchedThread)
    \/ RecordAnswerCommit(SchedThread)
    \/ RecordAnswerReturn(SchedThread)
    \/ Tick
    \/ \E c \in OneClient, r \in SelectInputs : StartSession(c, r.count, r.filter, r.tags)
    \/ \E c \in OneClient, r \in SelectInputs :
            StartSessionRejected(c, r.count, r.filter, r.tags)
    \/ \E tags \in CountsInputs : GetCounts(tags)

SelectSpec == SelectInit /\ [][SelectNext]_vars

----------------------------------------------------------------------------
(* Properties *)

EventsOf(question_id) == SelectSeq(history, LAMBDA e : e.question_id = question_id)

CorrectEventsOf(question_id) ==
    SelectSeq(history, LAMBDA e : e.question_id = question_id /\ e.is_correct)

LastEvent(h) == h[Len(h)]

\* the stats row that answering one at a time, in the order given, leaves
Replay(evs) ==
    LET R[i \in 1..Len(evs)] ==
            IF i = 1 THEN FirstStats(evs[1].is_correct, evs[1].answered_at)
            ELSE UpdatedStats(R[i - 1], evs[i].is_correct, evs[i].answered_at)
    IN  R[Len(evs)]

\* C1: submit-answer calls of one session are strictly ordered: whenever a
\* client with a session has no request in flight, the number of answers
\* recorded for the session equals the session's position.
C1_SubmitsSerialized ==
    \A c \in OneClient :
        HasSession(c) /\ Quiet(c) => recorded[c].total = cookie[c].current_index

\* C2: concurrent answers to one question lose no update: the stats row of
\* every question is the row left by applying the question's committed
\* answers one at a time, in commit order (and there is no row when there is
\* no answer), so two interleaved calls leave two more events, two more
\* counted answers and the ease and interval of a serial execution.
C2_NoLostUpdate ==
    \A q \in QuestionIds :
        IF EventsOf(q) = <<>> THEN q \notin DOMAIN stats
        ELSE q \in DOMAIN stats /\ stats[q] = Replay(EventsOf(q))

\* two calls for one question were in progress together, one had to wait
\* for the other's transaction, and both have committed
C2_Witness ==
    \E t, u \in Threads :
        /\ t # u
        /\ thr[t].pc = "done" /\ thr[u].pc = "done"
        /\ thr[t].question_id = thr[u].question_id
        /\ thr[u].waited
        /\ Len(EventsOf(thr[t].question_id)) = 2

\* C3: the history row and the stats update of an answer commit together:
\* in every committed store state, for every question, the number of its
\* events is times_correct + times_wrong, the number of its correct events
\* is times_correct, and it has a stats row exactly when it has an event.
C3_HistoryMatchesStats ==
    \A q \in QuestionIds :
        /\ (q \in DOMAIN stats) <=> (Len(EventsOf(q)) >= 1)
        /\ q \in DOMAIN stats =>
            /\ Len(EventsOf(q)) = stats[q].times_correct + stats[q].times_wrong
            /\ Len(CorrectEventsOf(q)) = stats[q].times_correct

\* a question has a committed answer while another answer to it has its
\* rows written and not yet committed
C3_Witness ==
    \E q \in DOMAIN stats :
        \E t \in Threads : thr[t].pc = "commit" /\ thr[t].question_id = q

\* C4: after any sequence of answers the stored ease_factor lies in
\* [1.3, 3.0].
C4_EaseInRange ==
    \A q \in DOMAIN stats :
        stats[q].ease_factor >= 13 /\ stats[q].ease_factor <= 30

\* seven correct answers in a row: the seventh would have raised 3.0 to 3.1
C4_Witness ==
    /\ SchedQuestion \in DOMAIN stats
    /\ stats[SchedQuestion].times_correct = 7
    /\ stats[SchedQuestion].times_wrong = 0
    /\ stats[SchedQuestion].ease_factor = 30

\* a commit of an answer to a question that already had a stats row
Reanswered(q, is_correct) ==
    /\ q \in DOMAIN stats
    /\ Len(history') = Len(history) + 1
    /\ LastEvent(history').question_id = q
    /\ LastEvent(history').is_correct = is_correct

\* C5: for a question that has stats, a correct answer sets interval_days to
\* 1 from 0, to 3 from 1 and otherwise to floor(old interval x old ease),
\* sets ease_factor to min(old ease + 0.1, 3.0), adds one to times_correct
\* and leaves times_wrong.
C5_CorrectAnswerStep ==
    [][\A q \in QuestionIds :
        Reanswered(q, TRUE) =>
            /\ stats'[q].interval_days =
                    IF stats[q].interval_days = 0 THEN 1
                    ELSE IF stats[q].interval_days = 1 THEN 3
                    ELSE (stats[q].interval_days * stats[q].ease_factor) \div 10
            /\ stats'[q].ease_factor =
                    IF stats[q].ease_factor + 1 > 30 THEN 30
                    ELSE stats[q].ease_factor + 1
            /\ stats'[q].times_correct = stats[q].times_correct + 1
            /\ stats'[q].times_wrong = stats[q].times_wrong]_vars

\* three correct answers: 0 -> 1 -> 3 -> floor(3 x 2.6) = 7
C5_Witness ==
    /\ SchedQuestion \in DOMAIN stats
    /\ stats[SchedQuestion].times_correct = 3
    /\ stats[SchedQuestion].times_wrong = 0
    /\ stats[SchedQuestion].interval_days = 7
    /\ stats[SchedQuestion].ease_factor = 27

\* C6: for a question that has stats, an incorrect answer resets
\* interval_days to 0 whatever it was, lowers ease_factor by 0.2 but not
\* below 1.3, adds one to times_wrong and leaves times_correct.
C6_WrongAnswerStep ==
    [][\A q \in QuestionIds :
        Reanswered(q, FALSE) =>
            /\ stats'[q].interval_days = 0
            /\ stats'[q].ease_factor =
                    IF stats[q].ease_factor - 2 < 13 THEN 13
                    ELSE stats[q].ease_factor - 2
            /\ stats'[q].times_wrong = stats[q].times_wrong + 1
            /\ stats'[q].times_correct = stats[q].times_correct]_vars

\* correct, correct, wrong: interval 3 -> 0, ease 2.6 -> 2.4
C6_Witness ==
    /\ SchedQuestion \in DOMAIN stats
    /\ stats[SchedQuestion].times_correct = 2
    /\ stats[SchedQuestion].times_wrong = 1
    /\ stats[SchedQuestion].interval_days = 0
    /\ stats[SchedQuestion].ease_factor = 24

\* C7: the first answer to a question creates its stats with ease_factor
\* 2.5, interval_days 1 if correct else 0, the counters 1/0 if correct else
\* 0/1, and next_review the answer's time plus interval_days days.
C7_FirstAnswer ==
    \A q \in QuestionIds :
        Len(EventsOf(q)) = 1 =>
            LET e == EventsOf(q)[1]
            IN  /\ q \in DOMAIN stats
                /\ stats[q].ease_factor = 25
                /\ stats[q].interval_days = (IF e.is_correct THEN 1 ELSE 0)
                /\ stats[q].times_correct = (IF e.is_correct THEN 1 ELSE 0)
                /\ stats[q].times_wrong = (IF e.is_correct THEN 0 ELSE 1)
                /\ stats[q].next_review =
                        e.answered_at + stats[q].interval_days * TicksPerDay

C7_Witness ==
    /\ Len(history) = 1
    /\ history[1].is_correct
    /\ history[1].answered_at = 1
    /\ stats[history[1].question_id].next_review = 1 + TicksPerDay

\* C8: once answers have been submitted for all N questions of a session
\* (the session is complete and no request of the client is in flight), the
\* session results report total = N, a score equal to the number of correct
\* submissions recorded for the session, and one result entry per question
\* in the order of the question list; a submit response on a complete
\* session has has_next false.
C8_Completion ==
    \A c \in OneClient :
        HasSession(c) /\ Complete(cookie[c]) /\ Quiet(c) =>
            /\ SessionResultsResp(c).total = Len(cookie[c].questions)
            /\ SessionResultsResp(c).score = recorded[c].correct
            /\ Len(SessionResultsResp(c).answers) = Len(cookie[c].questions)
            /\ \A i \in DOMAIN cookie[c].questions :
                    SessionResultsResp(c).answers[i].question_number =
                        get_question(cookie[c].questions[i]).question_number
            /\ (resp.op = "answer" /\ resp.status = 200) => ~resp.has_next

\* C9: fetching the current question changes neither the session cookie nor
\* the store, and a fetch that follows a fetch, with no other response in
\* between, returns the same response.
C9_FetchReadOnly ==
    [][\A c \in OneClient :
        GetCurrentQuestion(c) =>
            /\ cookie' = cookie
            /\ history' = history
            /\ stats' = stats
            /\ (resp.op = "question" => resp' = resp)]_vars

\* the second question of a session has been fetched
C9_Witness ==
    /\ HasSession("c1")
    /\ cookie["c1"].current_index = 1
    /\ resp.op = "question"
    /\ resp.status = 200
    /\ resp.index = 2
    /\ resp.question_number = get_question(cookie["c1"].questions[2]).question_number

\* C10: a complete session is terminal until a new session is started: as
\* long as no session is started its position stays at the end of the
\* question list, every current-question call returns the complete signal
\* with the session's score and status 200, and every well-formed
\* submit-answer call is rejected as "Session complete" and changes neither
\* the history, the stats nor the session.
C10_TerminalUntilNewSession ==
    [][\A c \in OneClient :
        HasSession(c) /\ Complete(cookie[c]) =>
            /\ resp'.op # "start" => Complete(cookie'[c])
            /\ GetCurrentQuestion(c) =>
                    /\ resp'.status = 200
                    /\ resp'.complete
                    /\ resp'.score = cookie[c].score
            /\ \A answer \in {a \in AnswerInputs : ValidAnswer(a)} :
                    SubmitRejected(c, answer) =>
                        /\ resp'.error = "Session complete"
                        /\ cookie' = cookie
                        /\ history' = history
                        /\ stats' = stats]_vars

\* the set of letters of an answer
LetterSet(answer) == {answer[i] : i \in DOMAIN answer}

\* C11: correctness is decided by comparing the submitted letters with the
\* stored correct answer as unordered sets of letters: every recorded
\* AnswerEvent is marked correct exactly when the letters given are the
\* letters of the question's correct answer, in any order.
C11_UnorderedComparison ==
    \A i \in DOMAIN history :
        history[i].is_correct <=>
            LetterSet(history[i].answer_given) =
                LetterSet(get_question(history[i].question_id).correct_answer)

\* the questions some selection with the filter may return
Selectable(filter_mode, tags) ==
    UNION {{p[i] : i \in DOMAIN p} :
            p \in get_questions_for_session(Cardinality(QuestionIds), filter_mode, tags)}

\* C12: a question that has never been answered is eligible for 'new' and
\* excluded by 'wrong' and 'due'; a question that has been answered, however
\* long ago and whatever happened since, has a stats row, and no selection
\* with the filter 'new', with or without tags, returns it.
C12_NewOnlyUnanswered ==
    \A q \in QuestionIds :
        IF EventsOf(q) = <<>>
        THEN /\ q \in Selectable("new", NoTags)
             /\ q \notin Selectable("wrong", NoTags)
             /\ q \notin Selectable("due", NoTags)
        ELSE /\ q \in DOMAIN stats
             /\ \A r \in SelectInputs :
                    q \notin Selectable("new", DropEmpty(r.tags.list))

\* question 1 has been answered, and a session started with the filter
\* 'new' then holds question 2 alone
C12_Witness ==
    /\ DOMAIN stats = {1}
    /\ resp.op = "start"
    /\ resp.status = 200
    /\ HasSession("c1")
    /\ cookie["c1"].questions = <<2>>
    /\ cookie["c1"].tags = NoTags

\* the predicate of each filter mode as stated; next_review is a local
\* time, and so is the current time it is compared with
ModePredicate(q, filter_mode) ==
    CASE filter_mode = "new" -> q \notin DOMAIN stats
      [] filter_mode = "wrong" ->
            q \in DOMAIN stats /\ stats[q].times_wrong > stats[q].times_correct
      [] filter_mode = "due" ->
            q \in DOMAIN stats /\ stats[q].next_review <= LocalNow
      [] OTHER -> TRUE

Satisfying(filter_mode) == {q \in QuestionIds : ModePredicate(q, filter_mode)}

\* C13: for every filter mode and count, every sequence the selection may
\* return is duplicate-free, has length min(count, number of questions
\* satisfying the mode's predicate), holds only questions satisfying it, and
\* is empty exactly when no question satisfies it; starting a session or
\* failing to start one changes neither the history nor the stats.
C13_SelectionContract ==
    /\ [](\A count \in 1..Cardinality(QuestionIds), filter_mode \in VALID_FILTERS :
            \A p \in get_questions_for_session(count, filter_mode, NoTags) :
                /\ \A i, j \in DOMAIN p : i # j => p[i] # p[j]
                /\ Len(p) = Min(count, Cardinality(Satisfying(filter_mode)))
                /\ \A i \in DOMAIN p : ModePredicate(p[i], filter_mode)
                /\ (p = <<>>) <=> (Satisfying(filter_mode) = {}))
    /\ [][\A c \in OneClient, r \in SelectInputs :
            StartSession(c, r.count, r.filter, r.tags)
                \/ StartSessionRejected(c, r.count, r.filter, r.tags) =>
                    history' = history /\ stats' = stats]_vars

\* the tag lists requested, after empty strings are dropped
RequestedTags ==
    {DropEmpty(r.tags.list) : r \in SelectInputs} \cup {DropEmpty(t) : t \in CountsInputs}

\* the question's tag set shares a tag with the requested tags
SharesTag(q, tags) ==
    \E i \in DOMAIN QuestionTable[q].tags, j \in DOMAIN tags :
        QuestionTable[q].tags[i] = tags[j]

\* C14: with a tag filter a question is eligible for selection, and counted
\* by the filter counts, exactly when its tag set shares a tag with the
\* requested tags under exact equality; with no tag filter every question
\* that passes the filter mode is.
C14_ExactTagMatch ==
    \A tags \in RequestedTags, filter_mode \in VALID_FILTERS :
        LET eligible == {q \in Matching(filter_mode, NoTags) :
                            tags = NoTags \/ SharesTag(q, tags)}
        IN  /\ Selectable(filter_mode, tags) = eligible
            /\ get_filter_counts(tags)[filter_mode] = Cardinality(eligible)

\* correct answers a question row could hold
CorrectAnswers == {<<"A">>, <<"A", "B">>, <<"C">>}

\* C15: the current-question response does not depend on the correct answer
\* of the current question: whatever correct answer the row held, the
\* response would be the one given; a response carries a correct answer
\* only when it answers a submission, and then that of the question just
\* answered; the result log in the cookie covers answered questions only.
C15_AnswerWithheld ==
    \A c \in OneClient :
        HasSession(c) =>
            /\ ~Complete(cookie[c]) =>
                    \A a \in CorrectAnswers :
                        QuestionResp(
                            [get_question(CurrentQuestionId(cookie[c]))
                                EXCEPT !.correct_answer = a],
                            cookie[c].current_index + 1,
                            Len(cookie[c].questions)) = CurrentQuestionResp(c)
            /\ resp.correct_answer # <<>> =>
                    /\ resp.op = "answer"
                    /\ resp.status = 200
                    /\ cookie[c].answers # <<>>
                    /\ resp.correct_answer =
                            cookie[c].answers[Len(cookie[c].answers)].correct
            /\ Len(cookie[c].answers) = cookie[c].current_index

\* question 102, whose correct answer has two letters, has been fetched as
\* the first question of a session
C15_Witness ==
    /\ HasSession("c1")
    /\ cookie["c1"].current_index = 0
    /\ resp.op = "question"
    /\ resp.status = 200
    /\ resp.index = 1
    /\ resp.question_number = 102
    /\ resp.correct_answer = <<>>

\* C16: a successful start-session, whatever session the client held,
\* leaves it a session with position 0, score 0, an empty result log and a
\* non-empty question list that the selection returned for the request, and
\* leaves the history and the stats as they were.
C16_StartReplacesSession ==
    [][\A c \in OneClient, r \in StartInputs :
        StartSession(c, r.count, r.filter, r.tags) =>
            /\ cookie'[c].current_index = 0
            /\ cookie'[c].score = 0
            /\ cookie'[c].answers = <<>>
            /\ cookie'[c].questions # <<>>
            /\ cookie'[c].questions \in
                    get_questions_for_session(r.count, r.filter, DropEmpty(r.tags.list))
            /\ resp'.status = 200
            /\ resp'.total = Len(cookie'[c].questions)
            /\ history' = history
            /\ stats' = stats]_vars

\* a session has been started after both questions were answered in
\* earlier sessions: the new session is fresh, the two events and the two
\* stats rows are still there
C16_Witness ==
    /\ resp.op = "start"
    /\ resp.status = 200
    /\ HasSession("c1")
    /\ cookie["c1"].current_index = 0
    /\ cookie["c1"].answers = <<>>
    /\ Len(cookie["c1"].questions) = 2
    /\ Len(history) = 2
    /\ DOMAIN stats = {1, 2}

\* the request's count, filter or tags are invalid
InvalidStart(r) ==
    \/ r.count < 1
    \/ r.count > 100
    \/ r.filter \notin {"all", "new", "wrong", "due"}
    \/ r.tags.given /\ ~r.tags.wellformed

\* C17: a start-session request with an invalid count, filter or tags, or
\* whose selection matches no question, starts no session; a start-session
\* that fails answers with an error and leaves the session cookie, the
\* history and the stats exactly as they were; no session ever has an empty
\* question list.
C17_FailedStartChangesNothing ==
    /\ [](\A c \in OneClient : HasSession(c) => cookie[c].questions # <<>>)
    /\ [][\A c \in OneClient, r \in StartInputs :
            InvalidStart(r) \/ Selectable(r.filter, DropEmpty(r.tags.list)) = {} =>
                ~StartSession(c, r.count, r.filter, r.tags)]_vars
    /\ [][resp' # resp /\ resp'.op = "start" /\ resp'.status # 200 =>
            /\ resp'.status = 400
            /\ resp'.error # ""
            /\ cookie' = cookie
            /\ history' = history
            /\ stats' = stats]_vars

\* a start-session matched no question while a session was in progress:
\* the session is still at its second question
C17_Witness ==
    /\ resp.op = "start"
    /\ resp.status = 400
    /\ resp.error = "No questions available for this filter"
    /\ HasSession("c1")
    /\ cookie["c1"].current_index = 1
    /\ Len(cookie["c1"].answers) = 1

\* C18: over a session in which k answers were submitted, c of them
\* correct, by the one client that answers: whenever the client has no
\* request in flight the session score is c, and the dashboard's
\* total_answers and correct_answers have grown by k and by c since the
\* session was started.
C18_ScoreAndDashboard ==
    \A c \in OneClient :
        HasSession(c) /\ Quiet(c) =>
            /\ cookie[c].score = recorded[c].correct
            /\ get_dashboard_stats.total_answers =
                    recorded[c].total_before + recorded[c].total
            /\ get_dashboard_stats.correct_answers =
                    recorded[c].correct_before + recorded[c].correct

\* C19: in every state of a started session 0 <= score <= position <=
\* length of the question list, the result log has position entries, score
\* is the number of entries marked correct, and the i-th entry refers to
\* the i-th question; until a new session is started the question list
\* does not change and the position does not decrease.
C19_SessionInvariant ==
    /\ [](\A c \in OneClient :
            HasSession(c) =>
                /\ 0 <= cookie[c].score
                /\ cookie[c].score <= cookie[c].current_index
                /\ cookie[c].current_index <= Len(cookie[c].questions)
                /\ Len(cookie[c].answers) = cookie[c].current_index
                /\ cookie[c].score =
                        Len(SelectSeq(cookie[c].answers, LAMBDA e : e.is_correct))
                /\ \A i \in DOMAIN cookie[c].answers :
                        cookie[c].answers[i].question_number =
                            get_question(cookie[c].questions[i]).question_number)
    /\ [][\A c \in OneClient :
            HasSession(c) /\ ~(resp'.op = "start" /\ resp'.status = 200) =>
                /\ cookie'[c].questions = cookie[c].questions
                /\ cookie'[c].current_index >= cookie[c].current_index]_vars

\* C20: a correct answer never shortens the review interval: interval_days
\* after a correct answer to a question that has stats is at least
\* interval_days before it; and every stored interval_days is 0, 1 or at
\* least 3.
C20_IntervalNeverShrinks ==
    /\ [](\A q \in DOMAIN stats :
            stats[q].interval_days \in {0, 1} \/ stats[q].interval_days >= 3)
    /\ [][\A q \in QuestionIds :
            Reanswered(q, TRUE) =>
                stats'[q].interval_days >= stats[q].interval_days]_vars

\* four correct answers: 1, 3, 7, floor(7 x 2.7) = 18
C20_Witness ==
    /\ SchedQuestion \in DOMAIN stats
    /\ stats[SchedQuestion].times_correct = 4
    /\ stats[SchedQuestion].times_wrong = 0
    /\ stats[SchedQuestion].interval_days = 18

====
